---- MODULE Spec2Model ----
(***************************************************************************)
(* SETLyze analysis 1 "Spot preference": the worker thread Start of        *)
(* setlyze/analysis/spot_preference.py and the helpers of setlyze/std.py   *)
(* it calls, as a state machine.  The state is the local SQLite database   *)
(* (the tables species_spots_1, plate_area_totals_observed and             *)
(* plate_area_totals_expected), the configuration singleton, the fields of *)
(* the Start object and the position of Start.run.  Successive analyses    *)
(* run on the same database.                                               *)
(***************************************************************************)
EXTENDS Integers, Sequences, FiniteSets, TLC

(***************************************************************************)
(* Bounds of the model.                                                    *)
(***************************************************************************)
\* Plate records in species_spots_1 after make_plates_unique.
MaxPlates == 2
\* The configured 'test-repeats' ranges over 0..MaxRepeats.
MaxRepeats == 2
\* Analyses begun one after the other, and Back buttons pressed in one.
MaxAnalyses == 2
MaxBacks == 1

(***************************************************************************)
(* Program constants.                                                      *)
(***************************************************************************)
\* A SETL plate has 25 surfaces: rec_sur1..rec_sur25, xrange(1,26).
N_SPOTS == 25
\* total_steps = 7 + self.n_repeats
BASE_STEPS == 7

Spots == 1..N_SPOTS
Areas == {"A", "B", "C", "D"}

\* Python's None (chisq_observed before it is computed, no report yet).
None == [none |-> TRUE]

\* The report an earlier analysis left in cfg 'analysis-report': nothing
\* reads it again, and the model keeps only that it is not this run's.
EarlierReport == [earlier |-> TRUE]

(***************************************************************************)
(* The plate area tables.  Both aggregation methods hold their own literal *)
(* of the same dictionary.                                                 *)
(***************************************************************************)
\* Variant: spot 2 is left out of area B.
area2spots_observed_b_short ==
    [A |-> {1, 5, 21, 25},
     B |-> {3, 4, 6, 10, 11, 15, 16, 20, 22, 23, 24},
     C |-> {7, 8, 9, 12, 14, 17, 18, 19},
     D |-> {13}]

area2spots_observed ==
    [A |-> {1, 5, 21, 25},
     B |-> {2, 3, 4, 6, 10, 11, 15, 16, 20, 22, 23, 24},
     C |-> {7, 8, 9, 12, 14, 17, 18, 19},
     D |-> {13}]

\* Variant: spot 13 is listed in area C as well as in area D.
area2spots_expected_overlap ==
    [A |-> {1, 5, 21, 25},
     B |-> {2, 3, 4, 6, 10, 11, 15, 16, 20, 22, 23, 24},
     C |-> {7, 8, 9, 12, 13, 14, 17, 18, 19},
     D |-> {13}]

area2spots_expected ==
    [A |-> {1, 5, 21, 25},
     B |-> {2, 3, 4, 6, 10, 11, 15, 16, 20, 22, 23, 24},
     C |-> {7, 8, 9, 12, 14, 17, 18, 19},
     D |-> {13}]

\* The orders in which area2spots.iteritems() may walk the four keys: the
\* order of a dict is fixed by the interpreter build, not by the program.
iteritems_orders ==
    {o \in [1..4 -> Areas] : \A i, j \in 1..4 : i # j => o[i] # o[j]}

\* The order the worker's interpreter uses (CPython 2 walks this dict as
\* A, C, B, D).
iteritems_order == <<"A", "C", "B", "D">>

\* "for area, area_spots in area2spots.iteritems(): if spot in area_spots:
\*  ... break": the first area, in iteration order, that holds the spot;
\* "none" when the loop ends without a match (nothing is counted then).
RECURSIVE first_match(_, _, _, _)
first_match(a2s, order, spot, k) ==
    IF k > Len(order) THEN "none"
    ELSE IF spot \in a2s[order[k]] THEN order[k]
    ELSE first_match(a2s, order, spot, k + 1)

\* area_totals = {'A': 0, 'B': 0, 'C': 0, 'D': 0}, then += 1 for the
\* matching area of each spot of `spots`.
count_areas(a2s, order, spots) ==
    [a \in Areas |->
        Cardinality({s \in spots : first_match(a2s, order, s, 1) = a})]

\* Variant: the totals of area B are stored in the column of area A.
area_row_b_first(pla_id, totals) ==
    [pla_id |-> pla_id,
     area_a |-> totals["B"], area_b |-> totals["A"],
     area_c |-> totals["C"], area_d |-> totals["D"]]

\* A row of plate_area_totals_observed / plate_area_totals_expected.
area_row(pla_id, totals) ==
    [pla_id |-> pla_id,
     area_a |-> totals["A"], area_b |-> totals["B"],
     area_c |-> totals["C"], area_d |-> totals["D"]]

\* The column of a row that holds the total of plate area `a`.
area_col(row, a) ==
    CASE a = "A" -> row.area_a
      [] a = "B" -> row.area_b
      [] a = "C" -> row.area_c
      [] a = "D" -> row.area_d

(***************************************************************************)
(* The records of species_spots_1: a plate ID and 25 presence flags.       *)
(***************************************************************************)
\* The plates of the database and, for each, the positive spots its record
\* may have for the selected species: none, or the plate's pattern.
PlateIds == <<101, 102, 103, 104>>
PlatePatterns == << {1, 2, 5}, {13}, {7}, {3, 25} >>

RecordPatterns(k) == {{}, PlatePatterns[k]}

spot_record(pla_id, occupied) ==
    [pla_id |-> pla_id,
     rec_sur |-> [s \in Spots |-> IF s \in occupied THEN 1 ELSE 0]]

\* Every content of species_spots_1 after set_species_spots and
\* make_plates_unique: up to MaxPlates records with distinct plate IDs.
SpeciesSpotsTables ==
    UNION {
        {[k \in 1..n |-> spot_record(PlateIds[k], occ[k])] :
            occ \in {f \in [1..n -> UNION {RecordPatterns(j) : j \in 1..n}] :
                        \A j \in 1..n : f[j] \in RecordPatterns(j)}} :
        n \in 0..MaxPlates}

\* "if not precence: continue": the spots of a record that are positive.
positive_spots(record) ==
    {s \in Spots : record.rec_sur[s] # 0}

(***************************************************************************)
(* setlyze.database.get_area_totals(table, area_group): one value per row  *)
(* of the table, the sum of the row's totals for the areas of the group.   *)
(***************************************************************************)
RECURSIVE sum_areas(_, _)
sum_areas(row, group) ==
    IF group = {} THEN 0
    ELSE LET a == CHOOSE x \in group : TRUE
         IN area_col(row, a) + sum_areas(row, group \ {a})

get_area_totals(table, area_group) ==
    [k \in 1..Len(table) |-> sum_areas(table[k], area_group)]

RECURSIVE sum_seq(_)
sum_seq(s) == IF s = <<>> THEN 0 ELSE Head(s) + sum_seq(Tail(s))

(***************************************************************************)
(* Start.set_plate_area_totals_observed: DELETE, then one row per record   *)
(* of species_spots_1, in the order of the records.                        *)
(***************************************************************************)
observed_row(record) ==
    area_row(record.pla_id,
             count_areas(area2spots_observed, iteritems_order,
                         positive_spots(record)))

set_plate_area_totals_observed(spots_table) ==
    [k \in 1..Len(spots_table) |-> observed_row(spots_table[k])]

\* Variant: the DELETE statement removes nothing.
delete_from_nothing(table) == table

\* "DELETE FROM <table>" and the commit: no row is left.
delete_from(table) == <<>>

\* The INSERT statements of one call and the commit: the rows are added
\* after the rows the table has.
insert_into(table, rows) == table \o rows

\* plate_area_totals_observed after a call of
\* set_plate_area_totals_observed that finds it as `table`.
plate_area_totals_observed_after(table, spots_table) ==
    insert_into(delete_from(table),
                set_plate_area_totals_observed(spots_table))

(***************************************************************************)
(* setlyze.std.get_random_for_plate(n) = random.sample(xrange(1,26), n):   *)
(* n spots drawn without replacement.  The operator is the set of the      *)
(* draws the generator can return, each as the set of its spots.           *)
(***************************************************************************)
RECURSIVE k_subsets(_, _)
k_subsets(S, k) ==
    IF k = 0 THEN {{}}
    ELSE UNION {{t \cup {x} : t \in k_subsets({y \in S : y < x}, k - 1)} :
                x \in S}

\* Variant: n draws with replacement, so a spot can come up twice.
get_random_for_plate_with_replacement(n) ==
    IF n = 0 THEN {{}}
    ELSE UNION {k_subsets(1..(26 - 1), m) : m \in 1..n}

get_random_for_plate(n) == k_subsets(1..(26 - 1), n)

\* The largest number of positive spots a record of this model has.
MaxSpots ==
    CHOOSE m \in 0..N_SPOTS :
        /\ \E k \in 1..MaxPlates : Cardinality(PlatePatterns[k]) = m
        /\ \A k \in 1..MaxPlates : Cardinality(PlatePatterns[k]) <= m

\* For each n_spots, the area totals that the random spots of one plate
\* can sort into (lines 485-502 for every draw of get_random_for_plate).
random_area_totals ==
    [n \in 0..MaxSpots |->
        {count_areas(area2spots_expected, iteritems_order, random_spots) :
            random_spots \in get_random_for_plate(n)}]

(***************************************************************************)
(* Start.set_plate_area_totals_expected: DELETE, then for each row of      *)
(* plate_area_totals_observed a row with the same plate ID and the area    *)
(* totals of n_spots random spots.  The operator is the set of the tables  *)
(* the call can leave.                                                     *)
(***************************************************************************)
\* Variant: the row is stored under the number of spots, not the plate ID.
expected_row_choices_wrong_id(orow) ==
    LET n_spots == orow.area_a + orow.area_b + orow.area_c + orow.area_d
    IN {area_row(n_spots, t) : t \in random_area_totals[n_spots]}

expected_row_choices(orow) ==
    LET n_spots == orow.area_a + orow.area_b + orow.area_c + orow.area_d
    IN {area_row(orow.pla_id, t) : t \in random_area_totals[n_spots]}

\* Variant: plates without positive spots get no expected row.
RECURSIVE set_plate_area_totals_expected_skip_empty(_)
set_plate_area_totals_expected_skip_empty(obs_table) ==
    IF obs_table = <<>> THEN {<<>>}
    ELSE LET orow == Head(obs_table)
             rests == set_plate_area_totals_expected_skip_empty(Tail(obs_table))
         IN IF orow.area_a + orow.area_b + orow.area_c + orow.area_d = 0
            THEN rests
            ELSE {<<r>> \o rest :
                    r \in expected_row_choices(orow), rest \in rests}

\* Variant: the DELETE of the method empties plate_area_totals_observed.
plate_area_totals_observed_deleted(obs_table) == <<>>

\* plate_area_totals_observed after set_plate_area_totals_expected: the
\* method deletes from and inserts into plate_area_totals_expected only,
\* and only selects from this table.
plate_area_totals_observed_selected(obs_table) == obs_table

RECURSIVE set_plate_area_totals_expected(_)
set_plate_area_totals_expected(obs_table) ==
    IF obs_table = <<>> THEN {<<>>}
    ELSE {<<r>> \o rest :
            r \in expected_row_choices(Head(obs_table)),
            rest \in set_plate_area_totals_expected(Tail(obs_table))}

(***************************************************************************)
(* The configuration the user sets before the analysis starts.             *)
(***************************************************************************)
\* 'plate-areas-definition': user area name -> list of plate areas.
AreasDefinitions ==
    { [area1 |-> <<"A">>, area2 |-> <<"B">>, area3 |-> <<"C">>, area4 |-> <<"D">>],
      [area1 |-> <<"A", "B">>, area2 |-> <<"C", "D">>],
      [area1 |-> <<"A">>, area2 |-> <<"B", "C", "D">>] }

\* 'test-repeats'.
TestRepeats == 0..MaxRepeats

seq_set(s) == {s[j] : j \in 1..Len(s)}

(***************************************************************************)
(* Start.get_defined_areas_totals_observed.                                *)
(***************************************************************************)
\* Variant: the unused area names are not removed.
get_defined_areas_totals_observed_keep_unused(definition, obs_table) ==
    [area_name \in {"area1", "area2", "area3", "area4"} |->
        IF area_name \in DOMAIN definition
        THEN sum_seq(get_area_totals(obs_table,
                                     seq_set(definition[area_name])))
        ELSE 0]

get_defined_areas_totals_observed(definition, obs_table) ==
    LET areas_totals_observed ==
            [area_name \in {"area1", "area2", "area3", "area4"} |->
                IF area_name \in DOMAIN definition
                THEN sum_seq(get_area_totals(obs_table,
                                             seq_set(definition[area_name])))
                ELSE 0]
        unused == {area \in DOMAIN areas_totals_observed :
                        area \notin DOMAIN definition}
    IN [area \in (DOMAIN areas_totals_observed) \ unused |->
            areas_totals_observed[area]]

\* areas_total of Start.run: the sum of the values of chisq_observed.
RECURSIVE sum_values(_, _)
sum_values(f, keys) ==
    IF keys = {} THEN 0
    ELSE LET k == CHOOSE x \in keys : TRUE
         IN f[k] + sum_values(f, keys \ {k})

areas_total(totals) == sum_values(totals, DOMAIN totals)

(***************************************************************************)
(* Start.calculate_significance_wilcoxon: the entries appended to          *)
(* statistics['wilcoxon'], one per area group that is not skipped.  Of an  *)
(* entry the model keeps what the method computes from the two tables.     *)
(***************************************************************************)
\* "+".join(area_group)
RECURSIVE join(_, _)
join(sep, s) ==
    IF Len(s) = 1 THEN s[1] ELSE s[1] \o sep \o join(sep, Tail(s))

area_groups ==
    << <<"A">>, <<"B">>, <<"C">>, <<"D">>, <<"A", "B">>, <<"C", "D">>,
       <<"A", "B", "C">>, <<"B", "C", "D">> >>

wilcoxon_entry(area_group, obs_table, exp_table) ==
    LET obs == get_area_totals(obs_table, seq_set(area_group))
        exp == get_area_totals(exp_table, seq_set(area_group))
    IN [plate_area |-> join("+", area_group),
        n |-> Len(obs),
        n_sp_observed |-> sum_seq(obs),
        n_sp_expected |-> sum_seq(exp)]

wilcoxon_skipped(area_group, obs_table, exp_table) ==
    LET count_observed == Len(get_area_totals(obs_table, seq_set(area_group)))
        count_expected == Len(get_area_totals(exp_table, seq_set(area_group)))
    IN count_observed < 2 \/ count_expected < 2

RECURSIVE wilcoxon_entries(_, _, _)
wilcoxon_entries(k, obs_table, exp_table) ==
    IF k > Len(area_groups) THEN <<>>
    ELSE (IF wilcoxon_skipped(area_groups[k], obs_table, exp_table)
          THEN <<>>
          ELSE <<wilcoxon_entry(area_groups[k], obs_table, exp_table)>>)
         \o wilcoxon_entries(k + 1, obs_table, exp_table)

calculate_significance_wilcoxon(obs_table, exp_table) ==
    wilcoxon_entries(1, obs_table, exp_table)

(***************************************************************************)
(* Start.calculate_significance_wilcoxon_repeats: the tallies of           *)
(* statistics['repeats'] after one pass over the area groups.  The value   *)
(* setlyze.std.wilcox_test returns comes from R and is an input of the     *)
(* pass: one p-value for each area group, used when the group is tested.   *)
(***************************************************************************)
\* cfg 'alpha-level' in hundredths: the 0.05 SETLyze is configured with.
alpha_level == 5

\* float(sig_result['p.value']): a finite p-value in hundredths, or one of
\* the three floats that are not finite.
finite(v) == [kind |-> "finite", v |-> v]
NaN == [kind |-> "nan", v |-> 0]
PosInf == [kind |-> "inf", v |-> 0]
NegInf == [kind |-> "-inf", v |-> 0]

PValues == {finite(4), finite(5), finite(50), NaN, PosInf, NegInf}

\* The p-value of a pair of samples that do not differ.
p_default == finite(50)

\* The p-values of one pass, by position in area_groups: those of the model
\* give at most one area group a p-value other than p_default.
PassPValues ==
    {[k \in 1..Len(area_groups) |-> IF k = g THEN p ELSE p_default] :
        g \in 1..Len(area_groups), p \in PValues}

\* Variant: "<=" in place of "<".
float_le(p, a) ==
    CASE p.kind = "finite" -> p.v <= a
      [] p.kind = "-inf" -> TRUE
      [] OTHER -> FALSE

\* Python's "p_value < a" for a float p_value and a finite a: every
\* comparison with NaN is False, -inf is below and +inf above every number.
float_lt(p, a) ==
    CASE p.kind = "finite" -> p.v < a
      [] p.kind = "-inf" -> TRUE
      [] OTHER -> FALSE

\* Python's "p_value != 'nan'" for a float p_value: a float and a str are
\* never equal, so the comparison is True for every float, NaN included.
float_ne_str_nan(p) == TRUE

\* mean_observed > mean_expected, the means being sum / len of sequences
\* that have at least 2 values each.
mean_gt(observed_totals, expected_totals) ==
    sum_seq(observed_totals) * Len(expected_totals)
        > sum_seq(expected_totals) * Len(observed_totals)

new_tally == [n_significant |-> 0, n_preference |-> 0, n_rejection |-> 0]

\* Python's {}: statistics['repeats'] of a new Start object.
empty_dict == [key \in {} |-> new_tally]

\* Variant: the entry of the area group is created anew on every pass.
repeats_entry_always_new(repeats, area_group_str) ==
    [key \in (DOMAIN repeats) \cup {area_group_str} |->
        IF key = area_group_str THEN new_tally ELSE repeats[key]]

\* "if area_group_str not in self.statistics['repeats']: ... = {zeros}"
repeats_entry(repeats, area_group_str) ==
    IF area_group_str \in DOMAIN repeats THEN repeats
    ELSE [key \in (DOMAIN repeats) \cup {area_group_str} |->
            IF key = area_group_str THEN new_tally ELSE repeats[key]]

\* Variant: a group is skipped only when a table has no row at all.
wilcoxon_repeats_skipped_only_empty(area_group, obs_table, exp_table) ==
    LET count_observed == Len(get_area_totals(obs_table, seq_set(area_group)))
        count_expected == Len(get_area_totals(exp_table, seq_set(area_group)))
    IN count_observed < 1 \/ count_expected < 1

\* "if count_observed < 2 or count_expected < 2: continue"
wilcoxon_repeats_skipped(area_group, obs_table, exp_table) ==
    LET count_observed == Len(get_area_totals(obs_table, seq_set(area_group)))
        count_expected == Len(get_area_totals(exp_table, seq_set(area_group)))
    IN count_observed < 2 \/ count_expected < 2

\* Lines 776-788: the tally of a tested group after the test returned p.
tally_update(tally, p_value, observed_totals, expected_totals) ==
    IF float_lt(p_value, alpha_level) /\ float_ne_str_nan(p_value)
    THEN IF mean_gt(observed_totals, expected_totals)
         THEN [tally EXCEPT !.n_significant = @ + 1, !.n_preference = @ + 1]
         ELSE [tally EXCEPT !.n_significant = @ + 1, !.n_rejection = @ + 1]
    ELSE tally

\* The loop over area_groups from group k on.
RECURSIVE wilcoxon_repeats_from(_, _, _, _, _)
wilcoxon_repeats_from(k, repeats, obs_table, exp_table, p_values) ==
    IF k > Len(area_groups) THEN repeats
    ELSE LET area_group == area_groups[k]
             area_group_str == join("+", area_group)
             present == repeats_entry(repeats, area_group_str)
             observed_totals == get_area_totals(obs_table, seq_set(area_group))
             expected_totals == get_area_totals(exp_table, seq_set(area_group))
             after ==
                IF wilcoxon_repeats_skipped(area_group, obs_table, exp_table)
                THEN present
                ELSE [present EXCEPT ![area_group_str] =
                        tally_update(@, p_values[k], observed_totals,
                                     expected_totals)]
         IN wilcoxon_repeats_from(k + 1, after, obs_table, exp_table,
                                  p_values)

calculate_significance_wilcoxon_repeats(repeats, obs_table, exp_table, p_values) ==
    wilcoxon_repeats_from(1, repeats, obs_table, exp_table, p_values)

\* The area groups, by position, for which a pass calls wilcox_test.
wilcoxon_repeats_tested(obs_table, exp_table) ==
    {k \in 1..Len(area_groups) :
        ~wilcoxon_repeats_skipped(area_groups[k], obs_table, exp_table)}

(***************************************************************************)
(* Start.get_area_probabilities and Start.calculate_significance_chisq.    *)
(* The probabilities are kept as numbers of 25ths: the floats 4/25.0,      *)
(* 12/25.0, 8/25.0 and 1/25.0 of the source add up, in every order and     *)
(* grouping of the four, to the float 1.0 exactly.                         *)
(***************************************************************************)
\* Variant: area B is given 11 of the 25 surfaces.
probabilities_b_short == [A |-> 4, B |-> 11, C |-> 8, D |-> 1]

\* probabilities = {'A': 4/25.0, 'B': 12/25.0, 'C': 8/25.0, 'D': 1/25.0}
probabilities == [A |-> 4, B |-> 12, C |-> 8, D |-> 1]

get_area_probabilities(definition) ==
    LET area_probabilities ==
            [area \in {"area1", "area2", "area3", "area4"} |->
                IF area \in DOMAIN definition
                THEN sum_seq([j \in 1..Len(definition[area]) |->
                                probabilities[definition[area][j]]])
                ELSE 0]
        unused == {area \in DOMAIN area_probabilities :
                        area \notin DOMAIN definition}
    IN [area \in (DOMAIN area_probabilities) \ unused |->
            area_probabilities[area]]

\* Variant: one test, and one entry, for each user defined area.
calculate_significance_chisq_per_area(chi_squared, totals, definition) ==
    chi_squared \o
        [j \in 1..Cardinality(DOMAIN totals) |->
            [observed |-> totals, p |-> get_area_probabilities(definition)]]

\* statistics['chi_squared'] after the call: one entry more.  Of the entry
\* the model keeps the two arguments setlyze.std.chisq_test is called with.
calculate_significance_chisq(chi_squared, totals, definition) ==
    Append(chi_squared,
           [observed |-> totals, p |-> get_area_probabilities(definition)])

(***************************************************************************)
(* Start.generate_report: what cfg 'analysis-report' holds after the call. *)
(***************************************************************************)
\* Variant: the report is built but never stored in the configuration.
generate_report_not_stored(totals_observed, stats) == None

generate_report(totals_observed, stats) ==
    [area_totals_observed |-> totals_observed,
     chi_squared_areas |-> stats.chi_squared,
     wilcoxon_areas |-> stats.wilcoxon,
     wilcoxon_areas_repeats |-> stats.repeats]

\* Variant: the repeats are left out of the total.
total_steps_without_repeats(repeats) == BASE_STEPS

\* total_steps = 7 + self.n_repeats
total_steps_with(repeats) == BASE_STEPS + repeats

\* Variant: range(number - 1).
repeat_continues_one_short(i, number) == i < number - 1

\* range(number) of Start.repeat_test: whether repeat i (from 0) is run.
repeat_continues(i, number) == i < number

\* Variant: the zero check never fires.
totals_all_zero_never(totals) == areas_total(totals) < 0

\* "if areas_total == 0: ... emit 'analysis-aborted'; return".
totals_all_zero(totals) == areas_total(totals) = 0

\* Variant: the abort branch emits its signal and does not return.
after_check_no_return(aborting) == "repeat"

\* Where Start.run goes on after the zero check: the return of the abort
\* branch ends the thread.
after_check(aborting) == IF aborting THEN "aborted" ELSE "repeat"

(***************************************************************************)
(* State.                                                                  *)
(***************************************************************************)
VARIABLES
    species_spots,     \* table species_spots_1
    observed,          \* table plate_area_totals_observed
    expected,          \* table plate_area_totals_expected
    areas_definition,  \* cfg 'plate-areas-definition'
    report,            \* cfg 'analysis-report'
    n_repeats,         \* Start.n_repeats, read from cfg 'test-repeats'
    chisq_observed,    \* Start.chisq_observed
    statistics,        \* Start.statistics
    total_steps,       \* the progress dialog handler's total
    pc,                \* position of the worker in Start.run
    i,                 \* loop variable of Start.repeat_test
    log,               \* history: the calls and signals of the current run
    obs_fresh,         \* history: this worker has written Observed
    exp_fresh,         \* history: this worker has written Expected
    last_write,        \* history: the table written last
    last_pass,         \* history: the repeat pass just made, if any
    workers,           \* Start threads that have not yet ended
    lk_spot, lk_order, lk_observed, lk_expected, \* one area lookup, alone
    tb_spots,          \* table species_spots_1, for the writer on its own
    tb_prior,          \* history: plate_area_totals_observed before the calls
    tb_observed,       \* table plate_area_totals_observed, for the writer
    tb_first,          \* history: the table the first call left
    tb_calls,          \* history: calls of the writer made
    df_definition,     \* the definition made in the define-areas dialog
    df_observed,       \* table plate_area_totals_observed, for the dialog
    df_pc,             \* dialog, rejected, or the worker's position
    df_totals,         \* Start.chisq_observed of the worker started
    df_probabilities,  \* the result of get_area_probabilities
    sm_n,              \* get_random_for_plate: the argument n
    sm_random,         \* the values random() returns, in hundredths
    sm_pool,           \* random.sample: pool
    sm_result,         \* random.sample: result
    sm_i,              \* random.sample: loop variable
    sm_pc,             \* position in get_random_for_plate
    sc_s1, sc_s2,      \* two spot numbers, arguments of the functions below
    sc_coordinate,     \* the outcome of get_spot_coordinate(sc_s1)
    sc_difference,     \* of get_spot_position_difference(sc_s1, sc_s2)
    rw_record,         \* one record of species_spots_1, on its own
    rw_row,            \* the row of plate_area_totals_observed made of it
    bg_created,        \* Begin instances created so far
    bg_handlers,       \* per instance: its handlers connected to the sender
    bg_disconnects,    \* history: per instance and handler, disconnect calls
    bg_closed,         \* history: per instance, 'analysis-closed' emissions
    bg_window,         \* the window on screen
    bg_dialog,         \* the instance whose abort message is on screen
    bg_backs,          \* Back buttons pressed in the present analysis
    bg_calls,          \* history: callbacks run by the last emission
    bg_emitted         \* history: the signals the sender has emitted

db_vars == <<species_spots, observed, expected>>
run_vars == <<areas_definition, report, n_repeats, chisq_observed, statistics,
              total_steps, pc, i, log, obs_fresh, exp_fresh, last_write,
              last_pass, workers>>
lk_vars == <<lk_spot, lk_order, lk_observed, lk_expected>>
tb_vars == <<tb_spots, tb_prior, tb_observed, tb_first, tb_calls>>
df_vars == <<df_definition, df_observed, df_pc, df_totals, df_probabilities>>
sm_vars == <<sm_n, sm_random, sm_pool, sm_result, sm_i, sm_pc>>
sc_vars == <<sc_s1, sc_s2, sc_coordinate, sc_difference>>
rw_vars == <<rw_record, rw_row>>
bg_vars == <<bg_created, bg_handlers, bg_disconnects, bg_closed, bg_window,
             bg_dialog, bg_backs, bg_calls, bg_emitted>>
side_vars == <<tb_vars, df_vars, sm_vars, sc_vars, rw_vars, bg_vars>>
vars == <<db_vars, run_vars, lk_vars, side_vars>>

RunInit ==
    /\ species_spots = <<>>
    /\ observed = <<>>
    /\ expected = <<>>
    /\ areas_definition = None
    /\ report = None
    /\ n_repeats = 0
    /\ chisq_observed = None
    /\ statistics = [wilcoxon |-> <<>>, chi_squared |-> <<>>,
                     repeats |-> empty_dict]
    /\ total_steps = 0
    /\ pc = "idle"
    /\ i = 0
    /\ log = <<>>
    /\ obs_fresh = FALSE
    /\ exp_fresh = FALSE
    /\ last_write = "none"
    /\ last_pass = None
    /\ workers = 0

LookupIdle ==
    /\ lk_spot = 0
    /\ lk_order = <<>>
    /\ lk_observed = "unset"
    /\ lk_expected = "unset"

TableIdle ==
    /\ tb_spots = <<>>
    /\ tb_prior = <<>>
    /\ tb_observed = <<>>
    /\ tb_first = <<>>
    /\ tb_calls = 0

DefineIdle ==
    /\ df_definition = None
    /\ df_observed = <<>>
    /\ df_pc = "idle"
    /\ df_totals = None
    /\ df_probabilities = None

SampleIdle ==
    /\ sm_n = 0
    /\ sm_random = <<>>
    /\ sm_pool = <<>>
    /\ sm_result = <<>>
    /\ sm_i = 0
    /\ sm_pc = "idle"

SpotIdle ==
    /\ sc_s1 = 1
    /\ sc_s2 = 1
    /\ sc_coordinate = None
    /\ sc_difference = None

RowIdle ==
    /\ rw_record = None
    /\ rw_row = None

\* The application before any analysis: the main window, no Begin object.
HANDLERS == 12
Instances == 1..MaxAnalyses

BeginIdle ==
    /\ bg_created = 0
    /\ bg_handlers = [b \in Instances |-> {}]
    /\ bg_disconnects = [b \in Instances |-> [h \in 1..HANDLERS |-> 0]]
    /\ bg_closed = [b \in Instances |-> 0]
    /\ bg_window = "main"
    /\ bg_dialog = 0
    /\ bg_backs = 0
    /\ bg_calls = <<>>
    /\ bg_emitted = <<>>

SideIdle ==
    /\ TableIdle
    /\ DefineIdle
    /\ SampleIdle
    /\ SpotIdle
    /\ RowIdle
    /\ BeginIdle

Init ==
    /\ RunInit
    /\ LookupIdle
    /\ SideIdle

(***************************************************************************)
(* Begin.on_start_analysis and Start.__init__: the user has made the       *)
(* selections and defined the plate areas; a new worker is started.        *)
(***************************************************************************)
\* setlyze.gui.DefinePlateAreas, whose OK button emits 'plate-areas-defined':
\* the dialog is on screen only while no worker is in flight (the progress
\* dialog replaces it, and the next analysis begins from the main window
\* after the report or the abort message is closed).
define_areas_dialog_shown(running) == running = 0

\* Variant: the handler starts a second thread as well.
start_worker_twice(running) == running + 2

\* "t = Start(); t.start()": one more thread runs Start.run.
start_worker(running) == running + 1

on_start_analysis ==
    /\ define_areas_dialog_shown(workers)
    /\ \E definition \in AreasDefinitions, repeats \in TestRepeats :
          /\ areas_definition' = definition
          /\ n_repeats' = repeats
    /\ chisq_observed' = None
    /\ statistics' = [wilcoxon |-> <<>>, chi_squared |-> <<>>,
                      repeats |-> empty_dict]
    /\ total_steps' = 0
    /\ i' = 0
    /\ log' = <<>>
    /\ obs_fresh' = FALSE
    /\ exp_fresh' = FALSE
    /\ last_pass' = None
    /\ workers' = start_worker(workers)
    /\ pc' = "run"
    /\ report' = IF report = None THEN None ELSE EarlierReport
    /\ UNCHANGED <<db_vars, last_write, lk_vars, side_vars>>

\* Start.run, lines 292-320: the total of the progress dialog, then the
\* species spots table of the selection, its plate IDs made unique.
run_set_species_spots ==
    /\ pc = "run"
    /\ total_steps' = total_steps_with(n_repeats)
    /\ species_spots' \in SpeciesSpotsTables
    /\ log' = log \o <<"set_total_steps", "increase", "set_species_spots",
                       "increase", "make_plates_unique">>
    /\ pc' = "observed"
    /\ UNCHANGED <<observed, expected, areas_definition, report, n_repeats,
                   chisq_observed, statistics, i, obs_fresh, exp_fresh,
                   last_write, last_pass, workers, lk_vars, side_vars>>

\* Start.run, lines 322-326.
run_set_plate_area_totals_observed ==
    /\ pc = "observed"
    /\ observed' = plate_area_totals_observed_after(observed, species_spots)
    /\ obs_fresh' = TRUE
    /\ last_write' = "observed"
    /\ log' = log \o <<"increase", "set_plate_area_totals_observed">>
    /\ pc' = "check"
    /\ UNCHANGED <<species_spots, expected, areas_definition, report,
                   n_repeats, chisq_observed, statistics, total_steps, i,
                   exp_fresh, last_pass, workers, lk_vars, side_vars>>

\* Start.run, lines 328-345: the totals of the user defined areas and the
\* zero check; the return of the abort branch ends the thread.
run_check_totals ==
    /\ pc = "check"
    /\ LET totals == get_defined_areas_totals_observed(areas_definition,
                                                      observed)
           aborting == totals_all_zero(totals)
       IN /\ chisq_observed' = totals
          /\ log' = log \o <<"get_defined_areas_totals_observed">>
                        \o (IF aborting THEN <<"analysis-aborted">>
                            ELSE <<"increase">>)
          /\ pc' = after_check(aborting)
          /\ workers' = IF aborting THEN workers - 1 ELSE workers
    /\ UNCHANGED <<db_vars, areas_definition, report, n_repeats, statistics,
                   total_steps, i, obs_fresh, exp_fresh, last_write,
                   last_pass, lk_vars, side_vars>>

\* Start.repeat_test, lines 800-806: one more repeat; the progress bar, then
\* the expected totals are deleted and drawn again.
run_repeat_expected ==
    /\ pc = "repeat"
    /\ repeat_continues(i, n_repeats)
    /\ expected' \in {insert_into(delete_from(expected), rows) :
                        rows \in set_plate_area_totals_expected(observed)}
    /\ exp_fresh' = TRUE
    /\ last_write' = "expected"
    /\ last_pass' = None
    /\ log' = log \o <<"increase", "set_plate_area_totals_expected">>
    /\ pc' = "repeat_test"
    /\ observed' = plate_area_totals_observed_selected(observed)
    /\ UNCHANGED <<species_spots, areas_definition, report,
                   n_repeats, chisq_observed, statistics, total_steps, i,
                   obs_fresh, workers, lk_vars, side_vars>>

\* Start.repeat_test, line 809: the test pass of this repeat, for the
\* p-values the Wilcoxon tests of the pass return.
run_repeat_wilcoxon ==
    /\ pc = "repeat_test"
    /\ \E p_values \in PassPValues :
          /\ statistics' =
                [statistics EXCEPT !.repeats =
                    calculate_significance_wilcoxon_repeats(
                        @, observed, expected, p_values)]
          /\ last_pass' =
                [before |-> statistics.repeats,
                 p_value |-> [k \in wilcoxon_repeats_tested(observed, expected)
                                |-> p_values[k]]]
    /\ log' = log \o <<"calculate_significance_wilcoxon_repeats">>
    /\ i' = i + 1
    /\ pc' = "repeat"
    /\ UNCHANGED <<db_vars, areas_definition, report, n_repeats,
                   chisq_observed, total_steps, obs_fresh, exp_fresh,
                   last_write, workers, lk_vars, side_vars>>

\* Start.run, lines 351-356: the repeats are over; the non-repeated
\* Wilcoxon tests.
run_calculate_significance_wilcoxon ==
    /\ pc = "repeat"
    /\ ~repeat_continues(i, n_repeats)
    /\ statistics' =
          [statistics EXCEPT !.wilcoxon =
              @ \o calculate_significance_wilcoxon(observed, expected)]
    /\ last_pass' = None
    /\ log' = log \o <<"increase", "calculate_significance_wilcoxon">>
    /\ pc' = "chisq"
    /\ UNCHANGED <<db_vars, areas_definition, report, n_repeats,
                   chisq_observed, total_steps, i, obs_fresh, exp_fresh,
                   last_write, workers, lk_vars, side_vars>>

\* Start.run, line 357.
run_calculate_significance_chisq ==
    /\ pc = "chisq"
    /\ statistics' =
          [statistics EXCEPT !.chi_squared =
              calculate_significance_chisq(@, chisq_observed,
                                           areas_definition)]
    /\ log' = log \o <<"calculate_significance_chisq">>
    /\ pc' = "report"
    /\ UNCHANGED <<db_vars, areas_definition, report, n_repeats,
                   chisq_observed, total_steps, i, obs_fresh, exp_fresh,
                   last_write, last_pass, workers, lk_vars, side_vars>>

\* Start.run, lines 359-362.
run_generate_report ==
    /\ pc = "report"
    /\ report' = generate_report(chisq_observed, statistics)
    /\ log' = log \o <<"increase", "generate_report">>
    /\ pc' = "emit"
    /\ UNCHANGED <<db_vars, areas_definition, n_repeats, chisq_observed,
                   statistics, total_steps, i, obs_fresh, exp_fresh,
                   last_write, last_pass, workers, lk_vars, side_vars>>

\* Start.run, lines 364-370: the last step of the progress dialog and the
\* signal; the thread ends.
run_finish ==
    /\ pc = "emit"
    /\ log' = log \o <<"increase", "analysis-finished">>
    /\ pc' = "finished"
    /\ workers' = workers - 1
    /\ UNCHANGED <<db_vars, areas_definition, report, n_repeats,
                   chisq_observed, statistics, total_steps, i, obs_fresh,
                   exp_fresh, last_write, last_pass, lk_vars, side_vars>>

Next ==
    \/ on_start_analysis
    \/ run_set_species_spots
    \/ run_set_plate_area_totals_observed
    \/ run_check_totals
    \/ run_repeat_expected
    \/ run_repeat_wilcoxon
    \/ run_calculate_significance_wilcoxon
    \/ run_calculate_significance_chisq
    \/ run_generate_report
    \/ run_finish

Spec == Init /\ [][Next]_vars

(***************************************************************************)
(* The area lookup of the two aggregation methods on its own: a spot and   *)
(* an iteration order of the dictionary are drawn, and each method's loop  *)
(* over area2spots.iteritems() is run for that spot.                       *)
(***************************************************************************)
LookupInit ==
    /\ RunInit
    /\ lk_spot \in Spots
    /\ lk_order \in iteritems_orders
    /\ lk_observed = "unset"
    /\ lk_expected = "unset"
    /\ SideIdle

\* set_plate_area_totals_observed, lines 421-429, for one positive spot.
lookup_observed ==
    /\ lk_observed = "unset"
    /\ lk_observed' = first_match(area2spots_observed, lk_order, lk_spot, 1)
    /\ UNCHANGED <<db_vars, run_vars, side_vars, lk_spot, lk_order, lk_expected>>

\* set_plate_area_totals_expected, lines 494-502, for one random spot.
lookup_expected ==
    /\ lk_expected = "unset"
    /\ lk_expected' = first_match(area2spots_expected, lk_order, lk_spot, 1)
    /\ UNCHANGED <<db_vars, run_vars, side_vars, lk_spot, lk_order, lk_observed>>

LookupNext ==
    \/ lookup_observed
    \/ lookup_expected

LookupSpec == LookupInit /\ [][LookupNext]_vars

(***************************************************************************)
(* set_plate_area_totals_observed on its own: the table holds what an      *)
(* earlier analysis left, species_spots_1 holds the records of the present *)
(* selection, and the method is called, and called once more.              *)
(***************************************************************************)
\* What an analysis can leave in plate_area_totals_observed.
ObservedTables ==
    {set_plate_area_totals_observed(t) : t \in SpeciesSpotsTables}

TableInit ==
    /\ RunInit
    /\ LookupIdle
    /\ tb_spots \in SpeciesSpotsTables
    /\ tb_prior \in ObservedTables
    /\ tb_observed = tb_prior
    /\ tb_first = <<>>
    /\ tb_calls = 0
    /\ DefineIdle
    /\ SampleIdle
    /\ SpotIdle
    /\ RowIdle
    /\ BeginIdle

\* The first call of set_plate_area_totals_observed, lines 388-446.
table_first_call ==
    /\ tb_calls = 0
    /\ tb_observed' = plate_area_totals_observed_after(tb_observed, tb_spots)
    /\ tb_first' = tb_observed'
    /\ tb_calls' = 1
    /\ UNCHANGED <<db_vars, run_vars, lk_vars, df_vars, sm_vars, sc_vars, rw_vars, bg_vars, tb_spots, tb_prior>>

\* The same call again, species_spots_1 unchanged.
table_second_call ==
    /\ tb_calls = 1
    /\ tb_observed' = plate_area_totals_observed_after(tb_observed, tb_spots)
    /\ tb_calls' = 2
    /\ UNCHANGED <<db_vars, run_vars, lk_vars, df_vars, sm_vars, sc_vars, rw_vars, bg_vars, tb_spots, tb_prior, tb_first>>

TableNext ==
    \/ table_first_call
    \/ table_second_call

TableSpec == TableInit /\ [][TableNext]_vars

(***************************************************************************)
(* The define-areas dialog and the worker's use of the definition: the     *)
(* user assigns the plate areas to area names and presses OK; a worker     *)
(* started with the definition computes the totals of the user defined     *)
(* areas and, for the Chi-squared test, their probabilities.               *)
(***************************************************************************)
list_areas == <<"A", "B", "C", "D">>

\* The definitions a user may try to make with the names area1 and area2:
\* each plate area under none, one or both of the names.
assigned_definitions ==
    {[b \in UNION {f[a] : a \in Areas} |->
         SelectSeq(list_areas, LAMBDA a : b \in f[a])] :
       f \in [Areas -> SUBSET {"area1", "area2"}]}

AreasCandidates == AreasDefinitions \cup assigned_definitions

\* Variant: the dialog passes on whatever was assigned.
plate_areas_defined_unchecked(definition) == TRUE

\* setlyze.gui.DefinePlateAreas: 'plate-areas-defined' is emitted only for
\* a definition that has each of the plate areas A-D under exactly one name.
plate_areas_defined(definition) ==
    \A a \in Areas :
        /\ \E b \in DOMAIN definition : a \in seq_set(definition[b])
        /\ \A b, c \in DOMAIN definition :
              (a \in seq_set(definition[b]) /\ a \in seq_set(definition[c]))
                  => b = c

DefineInit ==
    /\ RunInit
    /\ LookupIdle
    /\ TableIdle
    /\ df_definition \in AreasCandidates
    /\ df_observed \in ObservedTables
    /\ df_pc = "dialog"
    /\ df_totals = None
    /\ df_probabilities = None
    /\ SampleIdle
    /\ SpotIdle
    /\ RowIdle
    /\ BeginIdle

\* The OK button of the dialog with an accepted definition, then
\* Begin.on_start_analysis: the worker is started.
define_accepted ==
    /\ df_pc = "dialog"
    /\ plate_areas_defined(df_definition)
    /\ df_pc' = "run"
    /\ UNCHANGED <<db_vars, run_vars, lk_vars, tb_vars, sm_vars, sc_vars, rw_vars, bg_vars, df_definition,
                   df_observed, df_totals, df_probabilities>>

\* The OK button with a definition that is not accepted: no signal.
define_rejected ==
    /\ df_pc = "dialog"
    /\ ~plate_areas_defined(df_definition)
    /\ df_pc' = "rejected"
    /\ UNCHANGED <<db_vars, run_vars, lk_vars, tb_vars, sm_vars, sc_vars, rw_vars, bg_vars, df_definition,
                   df_observed, df_totals, df_probabilities>>

\* Start.run, line 330.
define_totals ==
    /\ df_pc = "run"
    /\ df_totals' = get_defined_areas_totals_observed(df_definition,
                                                      df_observed)
    /\ df_pc' = IF totals_all_zero(df_totals') THEN "aborted" ELSE "chisq"
    /\ UNCHANGED <<db_vars, run_vars, lk_vars, tb_vars, sm_vars, sc_vars, rw_vars, bg_vars, df_definition,
                   df_observed, df_probabilities>>

\* Start.calculate_significance_chisq, line 685.
define_probabilities ==
    /\ df_pc = "chisq"
    /\ df_probabilities' = get_area_probabilities(df_definition)
    /\ df_pc' = "tested"
    /\ UNCHANGED <<db_vars, run_vars, lk_vars, tb_vars, sm_vars, sc_vars, rw_vars, bg_vars, df_definition,
                   df_observed, df_totals>>

DefineNext ==
    \/ define_accepted
    \/ define_rejected
    \/ define_totals
    \/ define_probabilities

DefineSpec == DefineInit /\ [][DefineNext]_vars

(***************************************************************************)
(* setlyze.std.get_random_for_plate(n) step by step: the call              *)
(* random.sample(xrange(1,26), n) of the standard library, which copies    *)
(* the population to a pool and n times takes the pool element at a random *)
(* index and puts the last element of the pool in its place.  (For small n *)
(* the library keeps a set of the indices taken and draws again on a       *)
(* repeated index: the same choice among the elements not yet taken.)      *)
(***************************************************************************)
\* Variant: xrange(1,25), a population without spot 25.
population_short == [k \in 1..(25 - 1) |-> k]

\* list(xrange(1,26))
population == [k \in 1..(26 - 1) |-> k]

\* The arguments: the numbers of spots a plate can have, and one more.
SampleSizes == 0..(N_SPOTS + 1)

\* Sequences of values of random(), as hundredths; a sequence is used over
\* and over when the loop needs more values than it has.
RandomStreams ==
    { <<0>>, <<99>>, <<50>>, <<0, 99>>, <<13, 77, 42>>, <<99, 0, 50, 25>>,
      <<7, 93, 61, 38, 84>> }

\* random() for the i-th pass of the loop (i from 0).
random_value(stream, k) == stream[(k % Len(stream)) + 1]

\* j = _int(random() * (n-i))
random_index(stream, k, size) == (random_value(stream, k) * size) \div 100

SampleInit ==
    /\ RunInit
    /\ LookupIdle
    /\ TableIdle
    /\ DefineIdle
    /\ sm_n \in SampleSizes
    /\ sm_random \in RandomStreams
    /\ sm_pool = <<>>
    /\ sm_result = <<>>
    /\ sm_i = 0
    /\ sm_pc = "call"
    /\ SpotIdle
    /\ RowIdle
    /\ BeginIdle

\* random.sample: "if not 0 <= k <= n: raise ValueError", else the pool.
sample_call ==
    /\ sm_pc = "call"
    /\ IF 0 <= sm_n /\ sm_n <= Len(population)
       THEN /\ sm_pool' = population
            /\ sm_pc' = "loop"
       ELSE /\ sm_pool' = <<>>
            /\ sm_pc' = "ValueError"
    /\ UNCHANGED <<db_vars, run_vars, lk_vars, tb_vars, df_vars, sc_vars, rw_vars, bg_vars, sm_n,
                   sm_random, sm_result, sm_i>>

\* One pass of "for i in xrange(k)": result[i] = pool[j] and
\* pool[j] = pool[n-i-1].
sample_draw ==
    /\ sm_pc = "loop"
    /\ sm_i < sm_n
    /\ LET size == Len(population) - sm_i
           j == random_index(sm_random, sm_i, size)
       IN /\ sm_result' = Append(sm_result, sm_pool[j + 1])
          /\ sm_pool' = [sm_pool EXCEPT ![j + 1] = sm_pool[size]]
    /\ sm_i' = sm_i + 1
    /\ UNCHANGED <<db_vars, run_vars, lk_vars, tb_vars, df_vars, sc_vars, rw_vars, bg_vars, sm_n,
                   sm_random, sm_pc>>

\* "return spots"
sample_return ==
    /\ sm_pc = "loop"
    /\ sm_i = sm_n
    /\ sm_pc' = "returned"
    /\ UNCHANGED <<db_vars, run_vars, lk_vars, tb_vars, df_vars, sc_vars, rw_vars, bg_vars, sm_n,
                   sm_random, sm_pool, sm_result, sm_i>>

SampleNext ==
    \/ sample_call
    \/ sample_draw
    \/ sample_return

SampleSpec == SampleInit /\ [][SampleNext]_vars

(***************************************************************************)
(* setlyze.std.get_spot_coordinate and get_spot_position_difference, for   *)
(* integer spot numbers in and around the range 1..25.                     *)
(***************************************************************************)
\* The outcome of a call: the exception raised, or the tuple returned.
ValueError == [raised |-> "ValueError"]

returned(tuple) == [value |-> tuple]

\* Variant: 0 passes the check.
spot_num_valid_from_zero(spot_num) == 0 <= spot_num /\ spot_num <= 25

\* "1 <= spot_num <= 25"
spot_num_valid(spot_num) == 1 <= spot_num /\ spot_num <= 25

\* Variant: the second and the third row have changed places.
rows_swapped ==
    << <<1, 2, 3, 4, 5>>,
       <<11, 12, 13, 14, 15>>,
       <<6, 7, 8, 9, 10>>,
       <<16, 17, 18, 19, 20>>,
       <<21, 22, 23, 24, 25>> >>

rows ==
    << <<1, 2, 3, 4, 5>>,
       <<6, 7, 8, 9, 10>>,
       <<11, 12, 13, 14, 15>>,
       <<16, 17, 18, 19, 20>>,
       <<21, 22, 23, 24, 25>> >>

cols ==
    << <<1, 6, 11, 16, 21>>,
       <<2, 7, 12, 17, 22>>,
       <<3, 8, 13, 18, 23>>,
       <<4, 9, 14, 19, 24>>,
       <<5, 10, 15, 20, 25>> >>

\* "for num, line in enumerate(lines, start=1): if spot_num in line:
\* line = num; break": the number of the first line holding the spot; if
\* none holds it, the loop variable is left as the last line itself.
RECURSIVE line_of(_, _, _)
line_of(lines, spot_num, num) ==
    IF num > Len(lines) THEN lines[Len(lines)]
    ELSE IF spot_num \in seq_set(lines[num]) THEN num
    ELSE line_of(lines, spot_num, num + 1)

get_spot_coordinate(spot_num) ==
    IF ~spot_num_valid(spot_num) THEN ValueError
    ELSE returned(<<line_of(rows, spot_num, 1), line_of(cols, spot_num, 1)>>)

abs(x) == IF x < 0 THEN 0 - x ELSE x

\* Variant: the tuple is returned as (v,h).
get_spot_position_difference_vh(s1, s2) ==
    LET c1 == get_spot_coordinate(s1)
        c2 == get_spot_coordinate(s2)
    IN IF c1 = ValueError \/ c2 = ValueError THEN ValueError
       ELSE returned(<<abs(c1.value[1] - c2.value[1]),
                       abs(c1.value[2] - c2.value[2])>>)

\* An error of either get_spot_coordinate call leaves the function at once.
get_spot_position_difference(s1, s2) ==
    LET c1 == get_spot_coordinate(s1)
        c2 == get_spot_coordinate(s2)
    IN IF c1 = ValueError THEN ValueError
       ELSE IF c2 = ValueError THEN ValueError
       ELSE LET v == abs(c1.value[1] - c2.value[1])
                h == abs(c1.value[2] - c2.value[2])
            IN returned(<<h, v>>)

\* The integers the functions are called with: the spot numbers and the
\* integers next to their range.
SpotNumbers == (0 - 2)..(N_SPOTS + 2)

SpotInit ==
    /\ RunInit
    /\ LookupIdle
    /\ TableIdle
    /\ DefineIdle
    /\ SampleIdle
    /\ sc_s1 \in SpotNumbers
    /\ sc_s2 \in SpotNumbers
    /\ sc_coordinate = None
    /\ sc_difference = None
    /\ RowIdle
    /\ BeginIdle

spot_coordinate ==
    /\ sc_coordinate = None
    /\ sc_coordinate' = get_spot_coordinate(sc_s1)
    /\ UNCHANGED <<db_vars, run_vars, lk_vars, tb_vars, df_vars, sm_vars,
                   rw_vars, bg_vars, sc_s1, sc_s2, sc_difference>>

spot_position_difference ==
    /\ sc_difference = None
    /\ sc_difference' = get_spot_position_difference(sc_s1, sc_s2)
    /\ UNCHANGED <<db_vars, run_vars, lk_vars, tb_vars, df_vars, sm_vars,
                   rw_vars, bg_vars, sc_s1, sc_s2, sc_coordinate>>

SpotNext ==
    \/ spot_coordinate
    \/ spot_position_difference

SpotSpec == SpotInit /\ [][SpotNext]_vars

(***************************************************************************)
(* One record of species_spots_1 through both aggregation methods: the     *)
(* row set_plate_area_totals_observed makes of it, and the call of         *)
(* get_random_for_plate that set_plate_area_totals_expected makes for the  *)
(* row.                                                                    *)
(***************************************************************************)
\* The spots of any number of whole plate areas.
areas_spots == {UNION {area2spots_observed[a] : a \in S} : S \in SUBSET Areas}

\* The positive spots of the record: whole plate areas, whole plate areas
\* but for one spot, or one spot.
RowOccupied ==
    areas_spots \cup {U \ {x} : U \in areas_spots, x \in Spots}
                \cup {{x} : x \in Spots}

RowInit ==
    /\ RunInit
    /\ LookupIdle
    /\ TableIdle
    /\ DefineIdle
    /\ SampleIdle
    /\ SpotIdle
    /\ rw_record \in {spot_record(PlateIds[1], occ) : occ \in RowOccupied}
    /\ rw_row = None
    /\ BeginIdle

\* set_plate_area_totals_observed, lines 406-438, for the record.
row_observed ==
    /\ rw_row = None
    /\ rw_row' = observed_row(rw_record)
    /\ UNCHANGED <<db_vars, run_vars, lk_vars, tb_vars, df_vars, sm_vars,
                   sc_vars, bg_vars, rw_record>>

\* set_plate_area_totals_expected, lines 478-485, for the row: n_spots and
\* the call of get_random_for_plate.
row_n_spots ==
    /\ rw_row # None
    /\ sm_pc = "idle"
    /\ sm_n' = rw_row.area_a + rw_row.area_b + rw_row.area_c + rw_row.area_d
    /\ sm_random' \in RandomStreams
    /\ sm_pc' = "call"
    /\ UNCHANGED <<db_vars, run_vars, lk_vars, tb_vars, df_vars, sc_vars,
                   rw_vars, bg_vars, sm_pool, sm_result, sm_i>>

RowNext ==
    \/ row_observed
    \/ row_n_spots
    \/ sample_call
    \/ sample_draw
    \/ sample_return

RowSpec == RowInit /\ [][RowNext]_vars

(***************************************************************************)
(* Begin: the signal handlers of an analysis.  The sender is shared by the *)
(* whole application; an emission runs the callback of every handler       *)
(* connected to the signal.  The windows emit the signals named in the     *)
(* comments of handle_application_signals.                                 *)
(***************************************************************************)
\* handler1 .. handler12: the signal each is connected to, and its callback.
handler_signal ==
    << "beginning-analysis", "selection-dialog-closed",
       "define-areas-dialog-closed", "locations-dialog-back",
       "species-dialog-back", "define-areas-dialog-back",
       "locations-selection-saved", "species-selection-saved",
       "plate-areas-defined", "report-dialog-closed", "analysis-aborted",
       "analysis-finished" >>

handler_callback ==
    << "on_select_locations", "on_window_closed", "on_window_closed",
       "on_window_closed", "on_select_locations", "on_select_species",
       "on_select_species", "on_define_plate_areas", "on_start_analysis",
       "on_window_closed", "on_analysis_aborted", "on_display_report" >>

\* The sender and the screen as one value, for the callbacks to change.
sender_state ==
    [handlers |-> bg_handlers, disconnects |-> bg_disconnects,
     closed |-> bg_closed, window |-> bg_window, dialog |-> bg_dialog]

\* Variant: handler12 is not disconnected.
destroyed_handlers_but_last == 1..(HANDLERS - 1)

\* The handlers destroy_handler_connections disconnects.
destroyed_handlers == 1..HANDLERS

destroy_handler_connections(st, b) ==
    [st EXCEPT !.handlers[b] = @ \ destroyed_handlers,
               !.disconnects[b] =
                    [h \in 1..HANDLERS |->
                        IF h \in destroyed_handlers THEN @[h] + 1 ELSE @[h]]]

\* 'analysis-closed' is emitted, which shows the main window; then the
\* handlers are destroyed.
on_window_closed(st, b) ==
    destroy_handler_connections(
        [st EXCEPT !.closed[b] = @ + 1, !.window = "main"], b)

\* The callback `cb` of instance b, up to where it returns or, for
\* on_analysis_aborted, up to dialog.run().
callback(st, b, cb) ==
    CASE cb = "on_select_locations" -> [st EXCEPT !.window = "locations"]
      [] cb = "on_select_species" -> [st EXCEPT !.window = "species"]
      [] cb = "on_define_plate_areas" -> [st EXCEPT !.window = "areas"]
      [] cb = "on_start_analysis" -> [st EXCEPT !.window = "progress"]
      [] cb = "on_display_report" -> [st EXCEPT !.window = "report"]
      [] cb = "on_analysis_aborted" ->
            [st EXCEPT !.window = "message", !.dialog = b]
      [] cb = "on_window_closed" -> on_window_closed(st, b)

\* The handlers connected to `signal`, in the order of their connection.
connected(handlers, signal) ==
    {<<b, h>> \in Instances \X (1..HANDLERS) :
        h \in handlers[b] /\ handler_signal[h] = signal}

first_connected(pairs) ==
    CHOOSE p \in pairs :
        \A q \in pairs : p[1] < q[1] \/ (p[1] = q[1] /\ p[2] <= q[2])

\* sender.emit(signal): the callbacks of the connected handlers run one
\* after the other; a handler disconnected meanwhile is not run.  The
\* result is the state left and the list of the callbacks run.
RECURSIVE emit_from(_, _, _)
emit_from(st, pairs, calls) ==
    IF pairs = {} THEN [state |-> st, calls |-> calls]
    ELSE LET p == first_connected(pairs)
             b == p[1]
             h == p[2]
         IN IF h \notin st.handlers[b]
            THEN emit_from(st, pairs \ {p}, calls)
            ELSE emit_from(callback(st, b, handler_callback[h]),
                           pairs \ {p},
                           Append(calls,
                                  [instance |-> b,
                                   callback |-> handler_callback[h],
                                   closed_before |-> st.closed[b] > 0]))

\* The signals of one emission: the signal, and 'analysis-closed' for each
\* on_window_closed among the callbacks it ran.
emitted_by(signal, calls) ==
    <<signal>> \o
    [k \in 1..Len(SelectSeq(calls,
                            LAMBDA c : c.callback = "on_window_closed"))
        |-> "analysis-closed"]

emit(st, signal) ==
    LET result == emit_from(st, connected(st.handlers, signal), <<>>)
    IN [state |-> result.state, calls |-> result.calls,
        emitted |-> emitted_by(signal, result.calls)]

BeginInit ==
    /\ RunInit
    /\ LookupIdle
    /\ TableIdle
    /\ DefineIdle
    /\ SampleIdle
    /\ SpotIdle
    /\ RowIdle
    /\ BeginIdle

\* The state and the calls an emission or a callback leaves.
sender_becomes(result) ==
    /\ bg_emitted' = bg_emitted \o result.emitted
    /\ bg_handlers' = result.state.handlers
    /\ bg_disconnects' = result.state.disconnects
    /\ bg_closed' = result.state.closed
    /\ bg_window' = result.state.window
    /\ bg_dialog' = result.state.dialog
    /\ bg_calls' = result.calls

\* A window of the analysis emits `signal`.
window_emits(windows, signal) ==
    /\ bg_window \in windows
    /\ sender_becomes(emit(sender_state, signal))
    /\ UNCHANGED <<db_vars, run_vars, lk_vars, tb_vars, df_vars, sm_vars,
                   sc_vars, rw_vars, bg_created>>

\* Begin.__init__, from the main window: the 12 handlers are connected and
\* 'beginning-analysis' is emitted.
begin_analysis ==
    /\ bg_window = "main"
    /\ bg_created < MaxAnalyses
    /\ LET b == bg_created + 1
           st == [sender_state EXCEPT !.handlers[b] = 1..HANDLERS]
       IN /\ bg_created' = b
          /\ sender_becomes(emit(st, "beginning-analysis"))
    /\ bg_backs' = 0
    /\ UNCHANGED <<db_vars, run_vars, lk_vars, tb_vars, df_vars, sm_vars,
                   sc_vars, rw_vars>>

\* The X button of a locations or species selection window.
selection_dialog_closed ==
    /\ window_emits({"locations", "species"}, "selection-dialog-closed")
    /\ UNCHANGED bg_backs

\* The X button of the define areas window.
define_areas_dialog_closed ==
    /\ window_emits({"areas"}, "define-areas-dialog-closed")
    /\ UNCHANGED bg_backs

\* The Back buttons.
locations_dialog_back ==
    /\ window_emits({"locations"}, "locations-dialog-back")
    /\ UNCHANGED bg_backs

species_dialog_back ==
    /\ bg_backs < MaxBacks
    /\ window_emits({"species"}, "species-dialog-back")
    /\ bg_backs' = bg_backs + 1

define_areas_dialog_back ==
    /\ bg_backs < MaxBacks
    /\ window_emits({"areas"}, "define-areas-dialog-back")
    /\ bg_backs' = bg_backs + 1

\* The selections are saved and the plate areas defined.
locations_selection_saved ==
    /\ window_emits({"locations"}, "locations-selection-saved")
    /\ UNCHANGED bg_backs

species_selection_saved ==
    /\ window_emits({"species"}, "species-selection-saved")
    /\ UNCHANGED bg_backs

plate_areas_defined_signal ==
    /\ window_emits({"areas"}, "plate-areas-defined")
    /\ UNCHANGED bg_backs

\* The worker started by on_start_analysis ends with one of its signals.
analysis_aborted ==
    /\ window_emits({"progress"}, "analysis-aborted")
    /\ UNCHANGED bg_backs

analysis_finished ==
    /\ window_emits({"progress"}, "analysis-finished")
    /\ UNCHANGED bg_backs

\* The report window is closed.
report_dialog_closed ==
    /\ window_emits({"report"}, "report-dialog-closed")
    /\ UNCHANGED bg_backs

\* on_analysis_aborted, lines 173-179: dialog.run() returns RESPONSE_OK.
message_response_ok ==
    /\ bg_window = "message"
    /\ sender_becomes(
          [state |-> on_window_closed([sender_state EXCEPT !.dialog = 0],
                                      bg_dialog),
           calls |-> <<>>, emitted |-> <<"analysis-closed">>])
    /\ UNCHANGED <<db_vars, run_vars, lk_vars, tb_vars, df_vars, sm_vars,
                   sc_vars, rw_vars, bg_created, bg_backs>>

\* dialog.run() returns another response (the message window is closed
\* without the OK button): the callback returns.
message_response_other ==
    /\ bg_window = "message"
    /\ bg_window' = "none"
    /\ bg_dialog' = 0
    /\ bg_calls' = <<>>
    /\ UNCHANGED <<db_vars, run_vars, lk_vars, tb_vars, df_vars, sm_vars,
                   sc_vars, rw_vars, bg_created, bg_handlers, bg_disconnects,
                   bg_closed, bg_backs, bg_emitted>>

BeginNext ==
    \/ begin_analysis
    \/ selection_dialog_closed
    \/ define_areas_dialog_closed
    \/ locations_dialog_back
    \/ species_dialog_back
    \/ define_areas_dialog_back
    \/ locations_selection_saved
    \/ species_selection_saved
    \/ plate_areas_defined_signal
    \/ analysis_aborted
    \/ analysis_finished
    \/ report_dialog_closed
    \/ message_response_ok
    \/ message_response_other

BeginSpec == BeginInit /\ [][BeginNext]_vars

(***************************************************************************)
(* Properties.                                                             *)
(***************************************************************************)
\* The calls and signals of the current run, the progress calls left out.
Calls == SelectSeq(log, LAMBDA e : e \notin {"increase", "set_total_steps"})

Count(e) == Cardinality({k \in DOMAIN log : log[k] = e})

TerminalSignals == {"analysis-finished", "analysis-aborted"}
TerminalCount == Cardinality({k \in DOMAIN log : log[k] \in TerminalSignals})

IsPrefix(s, t) == Len(s) <= Len(t) /\ \A k \in DOMAIN s : s[k] = t[k]

row_sum(row) == row.area_a + row.area_b + row.area_c + row.area_d

\* C1: when the user defined area totals computed by
\* get_defined_areas_totals_observed sum to zero, the run has emitted
\* 'analysis-aborted' as its last act and has ended: it has not rebuilt the
\* Expected table, run a repeat pass, a Wilcoxon or Chi-squared test or the
\* report, and it has not emitted 'analysis-finished'.
C1_ZeroTotalsAbort ==
    (chisq_observed # None /\ areas_total(chisq_observed) = 0) =>
        /\ pc = "aborted"
        /\ Len(log) > 0 /\ log[Len(log)] = "analysis-aborted"
        /\ Count("analysis-aborted") = 1
        /\ \A e \in {"set_plate_area_totals_expected",
                     "calculate_significance_wilcoxon_repeats",
                     "calculate_significance_wilcoxon",
                     "calculate_significance_chisq",
                     "generate_report", "analysis-finished"} : Count(e) = 0
        /\ ~exp_fresh
        /\ statistics = [wilcoxon |-> <<>>, chi_squared |-> <<>>,
                         repeats |-> empty_dict]

C1_Witness ==
    /\ pc = "aborted"
    /\ Len(observed) = MaxPlates
    /\ chisq_observed # None
    /\ areas_total(chisq_observed) = 0

\* C2: a run emits at most one terminal signal; once it has emitted one the
\* signal is the last entry of the run's history (no table write, test or
\* progress call follows it) and the worker has ended; a worker that has
\* ended has emitted exactly one, and a worker that has not ended has
\* emitted none and stands at a statement of Start.run, within the bounds
\* of its repeat loop.
C2_OneTerminalSignal ==
    /\ TerminalCount <= 1
    /\ TerminalCount = 1 =>
          /\ log[Len(log)] \in TerminalSignals
          /\ pc \in {"finished", "aborted"}
    /\ pc = "finished" =>
          TerminalCount = 1 /\ log[Len(log)] = "analysis-finished"
    /\ pc = "aborted" =>
          TerminalCount = 1 /\ log[Len(log)] = "analysis-aborted"
    /\ pc \notin {"idle", "finished", "aborted"} =>
          /\ TerminalCount = 0
          /\ pc \in {"run", "observed", "check", "repeat", "repeat_test",
                      "chisq", "report", "emit"}
          /\ 0 <= i /\ i <= n_repeats

C2_Witness ==
    /\ pc = "finished"
    /\ TerminalCount = 1
    /\ n_repeats > 0

\* C3: every repeat pass is directly preceded by a completed rebuild of the
\* Expected table and every rebuild is directly followed by the one repeat
\* pass of its repeat; when the repeat loop of a non-aborted run is over,
\* both have been called exactly n_repeats times.
C3_ExpectedOncePerRepeat ==
    /\ \A k \in DOMAIN log :
          log[k] = "calculate_significance_wilcoxon_repeats" =>
             k > 1 /\ log[k - 1] = "set_plate_area_totals_expected"
    /\ \A k \in DOMAIN log :
          (log[k] = "set_plate_area_totals_expected" /\ k < Len(log)) =>
             log[k + 1] = "calculate_significance_wilcoxon_repeats"
    /\ pc = "repeat_test" =>
          /\ log[Len(log)] = "set_plate_area_totals_expected"
          /\ exp_fresh /\ last_write = "expected"
          /\ Count("set_plate_area_totals_expected") = i + 1
          /\ Count("calculate_significance_wilcoxon_repeats") = i
    /\ pc \in {"chisq", "report", "emit", "finished"} =>
          /\ Count("set_plate_area_totals_expected") = n_repeats
          /\ Count("calculate_significance_wilcoxon_repeats") = n_repeats

C3_Witness ==
    /\ pc = "finished"
    /\ n_repeats = 2
    /\ Count("set_plate_area_totals_expected") = 2
    /\ Count("calculate_significance_wilcoxon_repeats") = 2

RECURSIVE RepeatCalls(_)
RepeatCalls(n) ==
    IF n = 0 THEN <<>>
    ELSE <<"set_plate_area_totals_expected",
           "calculate_significance_wilcoxon_repeats">> \o RepeatCalls(n - 1)

PrepareCalls ==
    <<"set_species_spots", "make_plates_unique",
      "set_plate_area_totals_observed", "get_defined_areas_totals_observed">>

FinishedCalls(n) ==
    PrepareCalls \o RepeatCalls(n)
        \o <<"calculate_significance_wilcoxon",
             "calculate_significance_chisq", "generate_report",
             "analysis-finished">>

AbortedCalls == PrepareCalls \o <<"analysis-aborted">>

\* C4: the calls of a run are, in this order, the preparation, the observed
\* totals, n_repeats times (Expected rebuild, repeat pass), the Wilcoxon
\* test, the Chi-squared test, the report and 'analysis-finished'; or the
\* preparation and the observed totals followed by 'analysis-aborted'.  From
\* generate_report on, and so before 'analysis-finished' is emitted,
\* cfg 'analysis-report' holds this run's report.
C4_RunOrder ==
    /\ \/ IsPrefix(Calls, FinishedCalls(n_repeats))
       \/ Calls = AbortedCalls
    /\ pc = "finished" => Calls = FinishedCalls(n_repeats)
    /\ pc = "aborted" => Calls = AbortedCalls
    /\ Count("generate_report") > 0 =>
          /\ report # None /\ report # EarlierReport
          /\ report.area_totals_observed = chisq_observed
          /\ report.wilcoxon_areas = statistics.wilcoxon
          /\ report.chi_squared_areas = statistics.chi_squared
    /\ Count("generate_report") = 0 => report \in {None, EarlierReport}

C4_Witness ==
    /\ pc = "finished"
    /\ n_repeats = 1
    /\ report # None /\ report # EarlierReport
    /\ Len(report.chi_squared_areas) = 1

\* C5: when the final Wilcoxon pass has run, the Expected table it read was
\* written by set_plate_area_totals_expected in this same run, from this
\* run's Observed table.
C5_FinalPassReadsOwnExpected ==
    pc \in {"chisq", "report", "emit", "finished"} =>
        exp_fresh /\ obs_fresh /\ last_write = "expected"

C7_RowCountsAlwaysEqual == Len(observed) = Len(expected)

\* C7 as amended: Observed and Expected have equal row counts in every state
\* in which the table written last is Expected, also after later workers
\* have started on the same database.
C7_RowCountsEqualAfterExpected ==
    last_write = "expected" => Len(observed) = Len(expected)

C7_Witness ==
    /\ last_write = "expected"
    /\ pc = "observed"
    /\ ~exp_fresh
    /\ Len(expected) = MaxPlates

\* The plate areas as the documentation gives them: A the corners, B the
\* other border spots, C the ring around the centre, D the centre.
AreaSpotsStated ==
    [A |-> {1, 5, 21, 25},
     B |-> {2, 3, 4, 6, 10, 11, 15, 16, 20, 22, 23, 24},
     C |-> {7, 8, 9, 12, 14, 17, 18, 19},
     D |-> {13}]

\* C8: after set_plate_area_totals_observed every record of species_spots_1
\* has its row, whose four totals add up to the number of positive spots of
\* the record, each total being the number of positive spots in that area;
\* positive spots {1,2,5} give A=2, B=1, C=0, D=0.
C8_ObservedTotals ==
    obs_fresh =>
        /\ Len(observed) = Len(species_spots)
        /\ \A k \in DOMAIN species_spots :
              LET rec == species_spots[k]
                  pos == {s \in Spots : rec.rec_sur[s] = 1}
                  row == observed[k]
              IN /\ row.pla_id = rec.pla_id
                 /\ row_sum(row) = Cardinality(pos)
                 /\ \A a \in Areas :
                       area_col(row, a) =
                          Cardinality(pos \cap AreaSpotsStated[a])
                 /\ pos = {1, 2, 5} =>
                       /\ row.area_a = 2 /\ row.area_b = 1
                       /\ row.area_c = 0 /\ row.area_d = 0

C8_Witness ==
    /\ obs_fresh
    /\ Len(species_spots) = 2
    /\ {s \in Spots : species_spots[1].rec_sur[s] = 1} = {1, 2, 5}
    /\ observed[1].area_a = 2 /\ observed[1].area_b = 1
    /\ observed[2].area_d = 1

\* C9: whenever the table written last is Expected, every Expected row has
\* the same sum of its four totals as the Observed row of that plate.
C9_ExpectedKeepsSpotCount ==
    last_write = "expected" =>
        \A k \in (DOMAIN expected) \cap (DOMAIN observed) :
            row_sum(expected[k]) = row_sum(observed[k])

C9_Witness ==
    /\ last_write = "expected"
    /\ Len(expected) > 0
    /\ row_sum(observed[1]) = 3
    /\ expected[1].area_c = 2 /\ expected[1].area_d = 1

\* C10: the area tables of both aggregation methods are the stated sets,
\* pairwise disjoint, of sizes 4, 12, 8 and 1 and with union 1..25; and
\* for every spot and every iteration order of the dictionary the lookup
\* of either method finds the one area that holds the spot.
C10_AreasPartition ==
    /\ \A a2s \in {area2spots_observed, area2spots_expected} :
          /\ a2s = AreaSpotsStated
          /\ \A a, b \in Areas : a # b => a2s[a] \cap a2s[b] = {}
          /\ UNION {a2s[a] : a \in Areas} = 1..25
          /\ Cardinality(a2s["A"]) = 4 /\ Cardinality(a2s["B"]) = 12
          /\ Cardinality(a2s["C"]) = 8 /\ Cardinality(a2s["D"]) = 1
    /\ lk_observed # "unset" =>
          /\ lk_observed \in Areas
          /\ lk_spot \in AreaSpotsStated[lk_observed]
    /\ lk_expected # "unset" =>
          /\ lk_expected \in Areas
          /\ lk_spot \in AreaSpotsStated[lk_expected]
    /\ (lk_observed # "unset" /\ lk_expected # "unset") =>
          lk_observed = lk_expected

C10_Witness ==
    /\ lk_spot = 13
    /\ lk_order[4] = "D"
    /\ lk_observed = "D"
    /\ lk_expected = "D"

\* The tally of an area group in statistics['repeats'] or in the tallies a
\* pass started from; a group without an entry has not been counted.
TallyOf(repeats, key) ==
    IF key \in DOMAIN repeats THEN repeats[key] ELSE new_tally

GroupKeys == {join("+", area_groups[k]) : k \in 1..Len(area_groups)}

\* The totals of area group k, one for each row of a table.
GroupTotals(table, k) ==
    [r \in 1..Len(table) |->
        sum_seq([a \in 1..Len(area_groups[k]) |->
                    area_col(table[r], area_groups[k][a])])]

\* The mean of the observed totals of area group k against the mean of its
\* expected totals: 1 when above, -1 when below, 0 when equal.
MeansCompared(k) ==
    LET o == sum_seq(GroupTotals(observed, k)) * Len(expected)
        e == sum_seq(GroupTotals(expected, k)) * Len(observed)
    IN IF o > e THEN 1 ELSE IF o < e THEN -1 ELSE 0

BelowAlpha(p) == p.kind = "-inf" \/ (p.kind = "finite" /\ p.v < alpha_level)

\* C11: within a run no counter of any area group ever decreases and no
\* entry is ever removed (only a new worker starts from empty tallies), and
\* in every state each group has n_preference + n_rejection <=
\* n_significant <= the number of repeat passes made so far.
C11_TalliesMonotonic ==
    [][ /\ pc' # "run" =>
            \A key \in DOMAIN statistics.repeats :
                /\ key \in DOMAIN statistics'.repeats
                /\ statistics'.repeats[key].n_significant
                      >= statistics.repeats[key].n_significant
                /\ statistics'.repeats[key].n_preference
                      >= statistics.repeats[key].n_preference
                /\ statistics'.repeats[key].n_rejection
                      >= statistics.repeats[key].n_rejection
        /\ \A key \in DOMAIN statistics'.repeats :
              LET t == statistics'.repeats[key]
              IN /\ t.n_preference >= 0 /\ t.n_rejection >= 0
                 /\ t.n_preference + t.n_rejection <= t.n_significant
                 /\ t.n_significant <= Cardinality({k \in DOMAIN log' :
                        log'[k] = "calculate_significance_wilcoxon_repeats"})
      ]_vars

C11_Witness ==
    /\ pc = "finished"
    /\ n_repeats = 2
    /\ statistics.repeats["A"] =
          [n_significant |-> 2, n_preference |-> 1, n_rejection |-> 1]
    /\ statistics.repeats["B"].n_significant = 0

\* C12: after a repeat pass, for every area group the pass tested:
\* n_significant went up by one if p < alpha and is unchanged otherwise;
\* when it went up, n_preference went up by one and n_rejection is
\* unchanged if the observed mean is above the expected mean, and the other
\* way round otherwise; when p is not below alpha the three counters are
\* unchanged.  So every group's counters move on that group's p-value and
\* means alone.
C12_TallyRule ==
    last_pass # None =>
        \A k \in DOMAIN last_pass.p_value :
            LET key == join("+", area_groups[k])
                before == TallyOf(last_pass.before, key)
                after == statistics.repeats[key]
                p == last_pass.p_value[k]
            IN IF BelowAlpha(p)
               THEN /\ after.n_significant = before.n_significant + 1
                    /\ IF MeansCompared(k) = 1
                       THEN /\ after.n_preference = before.n_preference + 1
                            /\ after.n_rejection = before.n_rejection
                       ELSE /\ after.n_preference = before.n_preference
                            /\ after.n_rejection = before.n_rejection + 1
               ELSE after = before

C12_Witness ==
    /\ last_pass # None
    /\ i = 2
    /\ 5 \in DOMAIN last_pass.p_value
    /\ last_pass.p_value[5] = finite(4)
    /\ MeansCompared(5) = 1
    /\ last_pass.before["A+B"].n_rejection = 1
    /\ statistics.repeats["A+B"] =
          [n_significant |-> 2, n_preference |-> 1, n_rejection |-> 1]

\* C13: after a repeat pass, the n_rejection of an area group whose test
\* returned a finite p-value has gone up only if the group's observed mean
\* is strictly below its expected mean: a significant repeat with equal
\* means counts as neither preference nor rejection.
C13_RejectionOnlyBelow ==
    last_pass # None =>
        \A k \in DOMAIN last_pass.p_value :
            LET key == join("+", area_groups[k])
            IN (/\ last_pass.p_value[k].kind = "finite"
                /\ statistics.repeats[key].n_rejection
                      > TallyOf(last_pass.before, key).n_rejection)
               => MeansCompared(k) = -1

\* C14: after a repeat pass, a tested area group whose p-value was NaN,
\* +infinity or -infinity has its three counters unchanged.
C14_NonFiniteLeavesTallies ==
    last_pass # None =>
        \A k \in DOMAIN last_pass.p_value :
            LET key == join("+", area_groups[k])
            IN last_pass.p_value[k].kind # "finite"
               => statistics.repeats[key] = TallyOf(last_pass.before, key)

\* C15: a pass over tables of which one has fewer than 2 rows, so that every
\* group has fewer than 2 values in one of its sequences, tests no group:
\* the repeat pass leaves every counter as it was and the final pass appends
\* no entry; with 2 or more rows in both tables every group is tested, and
\* the final pass appends exactly one entry for each group.  Either way the
\* pass runs to its end.
C15_SkipBelowTwoValues ==
    LET short == Len(observed) < 2 \/ Len(expected) < 2
        entries(key) == {n \in DOMAIN statistics.wilcoxon :
                            statistics.wilcoxon[n].plate_area = key}
    IN /\ last_pass # None =>
            /\ pc = "repeat"
            /\ short =>
                  /\ DOMAIN last_pass.p_value = {}
                  /\ \A key \in GroupKeys :
                        statistics.repeats[key]
                            = TallyOf(last_pass.before, key)
            /\ ~short => DOMAIN last_pass.p_value = 1..Len(area_groups)
       /\ pc \in {"chisq", "report", "emit", "finished"} =>
            /\ short => statistics.wilcoxon = <<>>
            /\ ~short => \A key \in GroupKeys : Cardinality(entries(key)) = 1

C15_Witness ==
    /\ pc = "chisq"
    /\ n_repeats = 1
    /\ Len(observed) = 1
    /\ statistics.wilcoxon = <<>>
    /\ DOMAIN statistics.repeats = GroupKeys
    /\ \A key \in GroupKeys : statistics.repeats[key] = new_tally

\* The total of one plate area over the rows of Observed.
ObservedAreaTotal(a) ==
    sum_seq([r \in 1..Len(observed) |-> area_col(observed[r], a)])

\* The definition gives each of A-D to exactly one user defined area.
IsPartition(definition) ==
    \A a \in Areas :
        Cardinality({<<b, j>> \in (DOMAIN definition) \X (1..4) :
                        j <= Len(definition[b]) /\ definition[b][j] = a}) = 1

OneToOne == [area1 |-> <<"A">>, area2 |-> <<"B">>, area3 |-> <<"C">>,
             area4 |-> <<"D">>]

\* C16: the totals get_defined_areas_totals_observed returned have exactly
\* the area names of the plate areas definition as keys; each value is the
\* sum, over the rows of Observed, of the totals of the plate areas given to
\* that name; with the 1:1 definition they are the totals of A, B, C and D;
\* and with a definition that gives each plate area to exactly one name they
\* add up to the number of positive spots counted in Observed.
C16_DefinedAreasTotals ==
    (chisq_observed # None /\ pc # "run" /\ pc # "observed") =>
        /\ DOMAIN chisq_observed = DOMAIN areas_definition
        /\ \A b \in DOMAIN areas_definition :
              chisq_observed[b] =
                 sum_seq([j \in 1..Len(areas_definition[b]) |->
                            ObservedAreaTotal(areas_definition[b][j])])
        /\ areas_definition = OneToOne =>
              /\ chisq_observed.area1 = ObservedAreaTotal("A")
              /\ chisq_observed.area2 = ObservedAreaTotal("B")
              /\ chisq_observed.area3 = ObservedAreaTotal("C")
              /\ chisq_observed.area4 = ObservedAreaTotal("D")
        /\ IsPartition(areas_definition) =>
              areas_total(chisq_observed)
                 = sum_seq([r \in 1..Len(observed) |-> row_sum(observed[r])])

C16_Witness ==
    /\ pc = "repeat"
    /\ DOMAIN areas_definition = {"area1", "area2"}
    /\ areas_definition.area1 = <<"A", "B">>
    /\ Len(observed) = 2
    /\ chisq_observed = [area1 |-> 3, area2 |-> 1]

\* C17: the probabilities passed to the Chi-squared test have exactly the
\* area names of the plate areas definition as keys, which are the keys of
\* the observed totals passed with them; each is the sum of the weights
\* A = 4/25, B = 12/25, C = 8/25, D = 1/25 of the plate areas given to that
\* name; and with a definition that gives each plate area to exactly one
\* name they add up to 25/25.
C17_AreaProbabilities ==
    \A n \in DOMAIN statistics.chi_squared :
        LET entry == statistics.chi_squared[n]
            weight == [A |-> 4, B |-> 12, C |-> 8, D |-> 1]
        IN /\ DOMAIN entry.p = DOMAIN areas_definition
           /\ DOMAIN entry.p = DOMAIN entry.observed
           /\ \A b \in DOMAIN areas_definition :
                 entry.p[b] =
                    sum_seq([j \in 1..Len(areas_definition[b]) |->
                                weight[areas_definition[b][j]]])
           /\ IsPartition(areas_definition) =>
                 sum_values(entry.p, DOMAIN entry.p) = 25

C17_Witness ==
    /\ pc = "report"
    /\ Len(statistics.chi_squared) = 1
    /\ statistics.chi_squared[1].p = [area1 |-> 4, area2 |-> 21]

\* C18: the Chi-squared test is not called before the repeat loop and the
\* final Wilcoxon pass are over; from then on it has been called exactly
\* once in this run, directly after the final Wilcoxon pass, on the totals
\* computed before the loop, and statistics['chi_squared'], and with it the
\* report, has exactly one entry whatever n_repeats is, while the repeat
\* pass has run n_repeats times.
C18_ChisqOnce ==
    /\ pc \in {"run", "observed", "check", "repeat", "repeat_test", "chisq",
               "aborted"} =>
          /\ Count("calculate_significance_chisq") = 0
          /\ statistics.chi_squared = <<>>
    /\ pc \in {"report", "emit", "finished"} =>
          /\ Count("calculate_significance_chisq") = 1
          /\ Len(statistics.chi_squared) = 1
          /\ statistics.chi_squared[1].observed = chisq_observed
          /\ chisq_observed =
                get_defined_areas_totals_observed(areas_definition, observed)
          /\ Count("calculate_significance_wilcoxon_repeats") = n_repeats
          /\ \A k \in DOMAIN log :
                log[k] = "calculate_significance_chisq" =>
                   /\ log[k - 1] = "calculate_significance_wilcoxon"
                   /\ \A m \in DOMAIN log :
                         log[m] = "calculate_significance_wilcoxon_repeats"
                            => m < k
    /\ pc \in {"emit", "finished"} => Len(report.chi_squared_areas) = 1

C18_Witness ==
    /\ pc = "finished"
    /\ n_repeats = 2
    /\ Count("calculate_significance_wilcoxon_repeats") = 2
    /\ Count("calculate_significance_chisq") = 1
    /\ Len(report.chi_squared_areas) = 1

\* C19: the total of the progress dialog is set once, as the first call of
\* the run, to 7 + n_repeats; the number of increase calls never exceeds
\* the total; and when 'analysis-finished' has been emitted the number of
\* increase calls equals the total.
C19_ProgressSteps ==
    /\ Count("set_total_steps") <= 1
    /\ Count("set_total_steps") = 0 => Count("increase") = 0
    /\ Count("set_total_steps") = 1 =>
          /\ log[1] = "set_total_steps"
          /\ total_steps = 7 + n_repeats
          /\ Count("increase") <= total_steps
    /\ pc \notin {"idle", "run"} => Count("set_total_steps") = 1
    /\ pc = "finished" => Count("increase") = total_steps

C19_Witness ==
    /\ pc = "finished"
    /\ n_repeats = 2
    /\ total_steps = 9
    /\ Count("increase") = 9

C21_ObservedIdempotent ==
    /\ tb_calls >= 1 =>
          /\ Len(tb_observed) = Len(tb_spots)
          /\ \A k \in DOMAIN tb_spots :
                /\ tb_observed[k] = observed_row(tb_spots[k])
                /\ tb_observed[k].pla_id = tb_spots[k].pla_id
                /\ row_sum(tb_observed[k])
                      = Cardinality(positive_spots(tb_spots[k]))
    /\ tb_calls = 2 => tb_observed = tb_first

\* The table held rows of an earlier selection, other than those of the
\* present one, and the method has been called twice.
C21_Witness ==
    /\ tb_calls = 2
    /\ tb_prior # <<>>
    /\ tb_prior # tb_first
    /\ Len(tb_prior) # Len(tb_spots)
    /\ tb_observed # <<>>

\* C22: a definition that omits one of the plate areas A-D, or has one
\* plate area under two area names, is rejected before any computation: for
\* such a definition no worker is started, so no totals of the user defined
\* areas and no probabilities are computed and no test is run.
C22_MalformedDefinitionRejected ==
    ~IsPartition(df_definition) =>
        /\ df_pc \in {"idle", "dialog", "rejected"}
        /\ df_totals = None
        /\ df_probabilities = None

\* A definition without plate area D, and one with plate area B under two
\* names, have been rejected.
C22_Witness ==
    /\ df_pc = "rejected"
    /\ df_totals = None
    /\ \/ df_definition = [area1 |-> <<"A">>, area2 |-> <<"B", "C">>]
       \/ df_definition = [area1 |-> <<"A", "B">>, area2 |-> <<"B", "C", "D">>]

\* C23: for every n in 0..25 the call get_random_for_plate(n) raises no
\* error and returns a list of exactly n integers, each in 1..25 and no two
\* alike; for n = 0 the list is empty and for n = 25 every spot number
\* 1..25 is in it.
C23_RandomForPlate ==
    sm_n \in 0..25 =>
        /\ sm_pc # "ValueError"
        /\ sm_pc = "returned" =>
              /\ Len(sm_result) = sm_n
              /\ \A k \in DOMAIN sm_result : sm_result[k] \in 1..25
              /\ \A k, l \in DOMAIN sm_result :
                    k # l => sm_result[k] # sm_result[l]
              /\ sm_n = 0 => sm_result = <<>>
              /\ sm_n = 25 => seq_set(sm_result) = 1..25

\* All 25 spots have been drawn, not in the order of their numbers.
C23_Witness ==
    /\ sm_pc = "returned"
    /\ sm_n = 25
    /\ sm_result # population
    /\ sm_result[1] # 1

\* The position of a spot number on the plate, counted along the rows.
GridPosition(n) == <<((n - 1) \div 5) + 1, ((n - 1) % 5) + 1>>

\* C24: for every spot number n in 1..25, get_spot_coordinate(n) is the
\* 1-indexed (row, col) of the spot when the spots are numbered row by row,
\* ((n-1) div 5 + 1, (n-1) mod 5 + 1); two spot numbers never get the same
\* coordinate, every coordinate of the 5x5 grid belongs to a spot, and the
\* documented examples hold.
C24_SpotCoordinate ==
    /\ (sc_s1 \in 1..25 /\ sc_coordinate # None) =>
          sc_coordinate = returned(GridPosition(sc_s1))
    /\ (sc_s1 \in 1..25 /\ sc_s2 \in 1..25 /\ sc_s1 # sc_s2) =>
          get_spot_coordinate(sc_s1) # get_spot_coordinate(sc_s2)
    /\ {get_spot_coordinate(n) : n \in 1..25}
          = {returned(c) : c \in (1..5) \X (1..5)}
    /\ get_spot_coordinate(1) = returned(<<1, 1>>)
    /\ get_spot_coordinate(5) = returned(<<1, 5>>)
    /\ get_spot_coordinate(14) = returned(<<3, 4>>)
    /\ get_spot_coordinate(24) = returned(<<5, 4>>)

\* The coordinate of spot 14 has been computed.
C24_Witness ==
    /\ sc_s1 = 14
    /\ sc_coordinate = returned(<<3, 4>>)

\* C25: get_spot_coordinate raises ValueError for every integer outside
\* 1..25, and get_spot_position_difference raises it when either argument
\* is outside 1..25; no tuple is returned then.
C25_SpotOutOfRange ==
    /\ (sc_s1 \notin 1..25 /\ sc_coordinate # None) =>
          sc_coordinate = ValueError
    /\ ((sc_s1 \notin 1..25 \/ sc_s2 \notin 1..25) /\ sc_difference # None) =>
          sc_difference = ValueError
    /\ \A n \in {0 - 1, 0, 26} : get_spot_coordinate(n) = ValueError

\* Both functions have raised for spot number 26, the second with a valid
\* second argument.
C25_Witness ==
    /\ sc_s1 = 26
    /\ sc_s2 = 3
    /\ sc_coordinate = ValueError
    /\ sc_difference = ValueError

\* C26: for spot numbers s1, s2 in 1..25, get_spot_position_difference
\* returns (h, v), h the absolute difference of the columns and v that of
\* the rows, both in 0..4; the result is the same with the arguments
\* exchanged, is (0, 0) exactly when s1 = s2, and the documented examples
\* hold.
C26_SpotPositionDifference ==
    /\ (sc_s1 \in 1..25 /\ sc_s2 \in 1..25 /\ sc_difference # None) =>
          LET p1 == GridPosition(sc_s1)
              p2 == GridPosition(sc_s2)
          IN /\ sc_difference
                   = returned(<<abs(p1[2] - p2[2]), abs(p1[1] - p2[1])>>)
             /\ sc_difference \in {returned(d) : d \in (0..4) \X (0..4)}
             /\ sc_difference = get_spot_position_difference(sc_s2, sc_s1)
             /\ sc_difference = returned(<<0, 0>>) <=> sc_s1 = sc_s2
    /\ get_spot_position_difference(1, 2) = returned(<<1, 0>>)
    /\ get_spot_position_difference(6, 11) = returned(<<0, 1>>)
    /\ get_spot_position_difference(9, 25) = returned(<<1, 3>>)
    /\ get_spot_position_difference(1, 25) = returned(<<4, 4>>)

\* The difference of spots 9 and 25 has been computed.
C26_Witness ==
    /\ sc_s1 = 9
    /\ sc_s2 = 25
    /\ sc_difference = returned(<<1, 3>>)

\* The calls of a run that read plate_area_totals_observed after it is set.
ObservedReaders ==
    {"get_defined_areas_totals_observed", "set_plate_area_totals_expected",
     "calculate_significance_wilcoxon_repeats",
     "calculate_significance_wilcoxon", "calculate_significance_chisq",
     "generate_report"}

\* C27: the Observed table is written by set_plate_area_totals_observed
\* only, once in a run and before the repeat loop; the rebuild of Expected,
\* the repeat passes, the final Wilcoxon and Chi-squared tests and the
\* report leave every row of it as it is, so from its write to the end of
\* the run the table holds the rows of the run's species-spots records.
C27_ObservedWrittenOnce ==
    [][ /\ observed' # observed => (pc = "observed" /\ pc' = "check")
        /\ pc \in {"check", "repeat", "repeat_test", "chisq", "report",
                   "emit"} => observed' = observed
        /\ Cardinality({k \in DOMAIN log' :
                           log'[k] = "set_plate_area_totals_observed"}) <= 1
        /\ \A k, l \in DOMAIN log' :
              (log'[k] = "set_plate_area_totals_observed"
                    /\ log'[l] \in ObservedReaders) => k < l
        /\ obs_fresh' =>
              observed' = set_plate_area_totals_observed(species_spots')
      ]_vars

\* A run with two repeats has ended; its Observed table has two rows and
\* the Expected table, rebuilt twice, has other rows.
C27_Witness ==
    /\ pc = "finished"
    /\ i = 2
    /\ Len(observed) = 2
    /\ observed = set_plate_area_totals_observed(species_spots)
    /\ expected # observed
    /\ row_sum(observed[1]) > 0

\* C28: every row written to Observed has 0 <= A <= 4, 0 <= B <= 12,
\* 0 <= C <= 8 and 0 <= D <= 1, so A + B + C + D <= 25; the number n_spots
\* that set_plate_area_totals_expected passes to get_random_for_plate is
\* therefore in 0..25, and the draw raises no error and returns n_spots
\* spots.
C28_ObservedRowBounds ==
    /\ rw_row # None =>
          /\ rw_row.area_a \in 0..4
          /\ rw_row.area_b \in 0..12
          /\ rw_row.area_c \in 0..8
          /\ rw_row.area_d \in 0..1
          /\ row_sum(rw_row) <= 25
          /\ row_sum(rw_row) = Cardinality(positive_spots(rw_record))
    /\ (rw_row # None /\ sm_pc # "idle") =>
          /\ sm_n = row_sum(rw_row)
          /\ sm_n \in 0..25
          /\ sm_pc # "ValueError"
          /\ sm_pc = "returned" => Len(sm_result) = sm_n

\* A record with all 25 spots positive: its row has the largest total of
\* each area, and 25 random spots have been drawn for it.
C28_Witness ==
    /\ rw_row # None
    /\ rw_row.area_a = 4
    /\ rw_row.area_b = 12
    /\ rw_row.area_c = 8
    /\ rw_row.area_d = 1
    /\ sm_pc = "returned"
    /\ sm_n = 25

\* The labels of the area groups, in the order of the tests.
GroupLabels == [k \in 1..Len(area_groups) |-> join("+", area_groups[k])]

\* C29: in a pass all 8 area groups are tested or all are skipped.  After
\* the final calculate_significance_wilcoxon the result list has no entry,
\* which is so exactly when the analysis has fewer than 2 plates, or it has
\* 8 entries, for A, B, C, D, A+B, C+D, A+B+C, B+C+D in this order; and
\* after at least one repeat pass the tally map has exactly these 8 keys,
\* also when every group was skipped.
C29_AllOrNoGroups ==
    /\ pc \in {"chisq", "report", "emit", "finished"} =>
          /\ Len(statistics.wilcoxon) \in {0, 8}
          /\ Len(statistics.wilcoxon) = 0 <=> Len(observed) < 2
          /\ Len(statistics.wilcoxon) = 8 =>
                \A k \in 1..8 :
                    statistics.wilcoxon[k].plate_area = GroupLabels[k]
    /\ (pc \notin {"idle", "aborted"} /\ i >= 1) =>
          /\ DOMAIN statistics.repeats
                = {"A", "B", "C", "D", "A+B", "C+D", "A+B+C", "B+C+D"}
          /\ DOMAIN statistics.repeats = seq_set(GroupLabels)

\* C30: the signal handlers of a Begin object.  From its creation until
\* on_window_closed runs all 12 handlers are connected and none has been
\* disconnected; on_window_closed (after a window is closed, the Back
\* button of the locations window, a closed report or an acknowledged
\* abort message) emits 'analysis-closed', once for the object, and
\* disconnects each of the 12 handlers exactly once.  No callback of an
\* object runs after that: a signal of a later analysis runs one callback,
\* that of the object of that analysis.
C30_HandlerLifecycle ==
    /\ \A b \in Instances :
          /\ bg_closed[b] <= 1
          /\ b > bg_created =>
                bg_handlers[b] = {} /\ bg_closed[b] = 0
          /\ (b <= bg_created /\ bg_closed[b] = 0) =>
                /\ bg_handlers[b] = 1..12
                /\ \A h \in 1..12 : bg_disconnects[b][h] = 0
          /\ bg_closed[b] = 1 =>
                /\ bg_handlers[b] = {}
                /\ \A h \in 1..12 : bg_disconnects[b][h] = 1
    /\ (bg_window = "main" /\ bg_created >= 1) => bg_closed[bg_created] = 1
    /\ \A b \in 1..bg_created : b < bg_created => bg_closed[b] = 1
    /\ Cardinality({k \in DOMAIN bg_emitted :
                        bg_emitted[k] = "analysis-closed"})
          = Cardinality({b \in Instances : bg_closed[b] = 1})
    /\ Cardinality({k \in DOMAIN bg_emitted :
                        bg_emitted[k] = "analysis-closed"})
          = IF bg_window = "main" \/ bg_created = 0
            THEN bg_created ELSE bg_created - 1
    /\ Len(bg_calls) <= 1
    /\ \A k \in DOMAIN bg_calls :
          /\ bg_calls[k].instance = bg_created
          /\ ~bg_calls[k].closed_before

\* The first analysis was closed and a second one has finished: its
\* 'analysis-finished' signal ran on_display_report once, for the second
\* object.
C30_Witness ==
    /\ bg_created = 2
    /\ bg_closed[1] = 1
    /\ bg_window = "report"
    /\ bg_calls = <<[instance |-> 2, callback |-> "on_display_report",
                     closed_before |-> FALSE]>>

====
